---- MODULE Spec2Model ----
(***************************************************************************)
(* Model of the jettison error chain (errors/errors.go: New, Wrap, the     *)
(* options, hasTrace, GetCodes, OriginalError) and of the log entry        *)
(* builder (log/log.go: makeEntry, WithError, addErrors, errorEntry).      *)
(*                                                                         *)
(* Error values live in a heap; an error is the index of its object and    *)
(* NilErr is the nil error.  A *JettisonError is a pointer, so the heap    *)
(* index is its identity: a write through the pointer changes what every   *)
(* holder of that index sees.  The kind of an object tells which fields     *)
(* it has.                                                                 *)
(***************************************************************************)
EXTENDS Integers, Sequences, FiniteSets, TLC

VARIABLES heap, calls, last, entry, joinOnPath

vars == <<heap, calls, last, entry, joinOnPath>>

\* Bounds of the model.
MaxErrs == 3
MaxOpts == 1
MaxNodes == 2

\* The nil error.
NilErr == 0

\* filepath.Base(os.Args[0]) of the running process.
ThisBinary == "bin"

\* The code never inspects the text of a message, so the k-th error value is
\* built with a message of its own: distinct messages tell the segments apart.
MsgOf(k) == "m" \o ToString(k)

\* The text of the k-th error value when it is a foreign error.
TextOf(k) == "t" \o ToString(k)

\* Nor does it inspect a code beyond comparing it with "": the code a call may
\* pass to WithCode is its own too.
CodeOf(k) == "c" \o ToString(k)

Binaries == {"svc"}

NoTrace == <<>>

ZeroHop == [Binary |-> "", StackTrace |-> NoTrace, Errors |-> <<>>]

ZeroMetadata == [Code |-> "", Trace |-> ZeroHop]

\* The zero value of a JettisonError.
ZeroJet ==
    [kind |-> "jet", message |-> "", err |-> NilErr, metadata |-> ZeroMetadata,
     Hops |-> <<>>, OriginalErr |-> NilErr]

IsJet(e) == e # NilErr /\ heap[e].kind = "jet"

\* The error values that exist, and the one the next call builds.
Errs == 1..Len(heap)

Fresh == Len(heap) + 1

----------------------------------------------------------------------------
(* Collaborators of errors.go that are not part of the sources at hand.    *)

\* internal.GetStackTrace: the frames of the call site; tok identifies the call.
GetStackTrace(tok) == <<tok>>

\* internal.NewHop: a hop of this binary, no trace, no segments.
NewHop == [Binary |-> ThisBinary, StackTrace |-> NoTrace, Errors |-> <<>>]

\* internal.NewError: a segment holding the message.
NewError(msg) == [Message |-> msg, Code |-> ""]

\* (*JettisonError).Clone: a deep copy, sharing nothing with the receiver.
Clone(je) == heap[je]

\* err.Error(): the outward message of a chain value, the text of a foreign error.
ErrorText(e) == IF e = NilErr THEN "" ELSE heap[e].message

\* Whether e exposes Unwrap() error: chain values and foreign wrappers do.
HasUnwrap(e) == heap[e].kind \in {"jet", "wrapper", "ierr"}

\* e.Unwrap(): the error e wraps, NilErr if none.
Unwrap(e) == heap[e].err

----------------------------------------------------------------------------
(* Options (errors.go:15-67).  An option is applied to a Hop and to a      *)
(* Metadata; the type switch picks the effect.                             *)

WithBinary(bin) == [opt |-> "WithBinary", arg |-> bin]
WithCode(code) == [opt |-> "WithCode", arg |-> code]
WithoutStackTrace == [opt |-> "WithoutStackTrace", arg |-> ""]

\* The options the k-th call chooses from.
Options(k) ==
    {WithBinary(b) : b \in Binaries} \cup {WithCode(CodeOf(k)), WithoutStackTrace}

SeqsUpTo(S, n) == UNION {[1..k -> S] : k \in 0..n}

OptionLists(k) == SeqsUpTo(Options(k), MaxOpts)

WithBinaryHop(h, bin) == [h EXCEPT !.Binary = bin]

WithBinaryMetadata(md, bin) == [md EXCEPT !.Trace.Binary = bin]

WithCodeHop_oldest(h, code) ==
    IF Len(h.Errors) > 0 THEN [h EXCEPT !.Errors[Len(h.Errors)].Code = code] ELSE h

WithCodeHop(h, code) ==
    IF Len(h.Errors) > 0 THEN [h EXCEPT !.Errors[1].Code = code] ELSE h

WithCodeMetadata(md, code) == [md EXCEPT !.Code = code]

WithoutStackTraceHop(h) ==
    IF Len(h.Errors) <= 1 THEN [h EXCEPT !.StackTrace = NoTrace] ELSE h

WithoutStackTraceMetadata(md) == [md EXCEPT !.Trace = ZeroHop]

ApplyHop(o, h) ==
    CASE o.opt = "WithBinary" -> WithBinaryHop(h, o.arg)
      [] o.opt = "WithCode" -> WithCodeHop(h, o.arg)
      [] o.opt = "WithoutStackTrace" -> WithoutStackTraceHop(h)

ApplyMetadata(o, md) ==
    CASE o.opt = "WithBinary" -> WithBinaryMetadata(md, o.arg)
      [] o.opt = "WithCode" -> WithCodeMetadata(md, o.arg)
      [] o.opt = "WithoutStackTrace" -> WithoutStackTraceMetadata(md)

\* for _, o := range ol { o.Apply(&h); o.Apply(&md) }
RECURSIVE ApplyAll(_, _, _)
ApplyAll(ol, h, md) ==
    IF ol = <<>> THEN [h |-> h, md |-> md]
    ELSE ApplyAll(Tail(ol), ApplyHop(Head(ol), h), ApplyMetadata(Head(ol), md))

----------------------------------------------------------------------------
(* New (errors.go:69-87).                                                  *)

newMetadata(tok) ==
    [Code |-> "",
     Trace |-> [Binary |-> ThisBinary, StackTrace |-> GetStackTrace(tok),
                Errors |-> <<>>]]

trace(tok) ==
    [Binary |-> ThisBinary, StackTrace |-> GetStackTrace(tok), Errors |-> <<>>]

NewValue(msg, ol, tok) ==
    LET h == [NewHop EXCEPT !.StackTrace = GetStackTrace(tok),
                            !.Errors = <<NewError(msg)>>]
        r == ApplyAll(ol, h, newMetadata(tok))
    IN  [ZeroJet EXCEPT !.message = msg, !.metadata = r.md,
                        !.Hops = <<r.h>>]

----------------------------------------------------------------------------
(* Wrap (errors.go:89-142).                                                *)

IsNilErr_never(err) == FALSE

\* err == nil
IsNilErr(err) == err = NilErr

RECURSIVE hasTrace(_)
hasTrace(e) ==
    IF e = NilErr THEN [Trace |-> ZeroHop, has |-> FALSE]
    ELSE IF IsJet(e) /\ heap[e].metadata.Trace.Binary # ""
         THEN [Trace |-> heap[e].metadata.Trace, has |-> TRUE]
    ELSE IF HasUnwrap(e) THEN hasTrace(Unwrap(e))
    ELSE [Trace |-> ZeroHop, has |-> FALSE]

WrapStart_alias(err, fresh) ==
    IF IsJet(err)
    THEN [at |-> err, je |-> heap[err]]
    ELSE [at |-> fresh,
          je |-> [ZeroJet EXCEPT
                    !.Hops = <<[NewHop EXCEPT
                                  !.Errors = <<[Message |-> ErrorText(err),
                                                Code |-> ""]>>]>>,
                    !.OriginalErr = err]]

\* Lines 96-110: the struct je that Wrap goes on to fill, and where it lives.
\* Both branches allocate: a new struct for a foreign error, a Clone for a
\* chain value.
WrapStart(err, fresh) ==
    IF IsJet(err)
    THEN [at |-> fresh, je |-> Clone(err)]
    ELSE [at |-> fresh,
          je |-> [ZeroJet EXCEPT
                    !.Hops = <<[NewHop EXCEPT
                                  !.Errors = <<[Message |-> ErrorText(err),
                                                Code |-> ""]>>]>>,
                    !.OriginalErr = err]]

CaptureHopTrace_always(je, tok) ==
    [je EXCEPT !.Hops[1].StackTrace = GetStackTrace(tok)]

\* Lines 112-115: capture a trace for the current hop if it has none.
CaptureHopTrace(je, tok) ==
    IF je.Hops[1].StackTrace = NoTrace
    THEN [je EXCEPT !.Hops[1].StackTrace = GetStackTrace(tok)]
    ELSE je

PrependSegment_append(je, msg) ==
    [je EXCEPT !.Hops[1].Errors = Append(je.Hops[1].Errors, NewError(msg))]

PrependSegment_replace(je, msg) ==
    [je EXCEPT !.Hops[1].Errors = <<NewError(msg)>>]

\* Lines 117-121: the new segment goes in front of the current hop's segments.
PrependSegment(je, msg) ==
    [je EXCEPT !.Hops[1].Errors = <<NewError(msg)>> \o je.Hops[1].Errors]

\* Lines 123-128: a fresh Metadata, given a trace only if err has no owner.
WrapMetadata(err, tok) ==
    IF ~hasTrace(err).has
    THEN [ZeroMetadata EXCEPT !.Trace = trace(tok)]
    ELSE ZeroMetadata

\* The value Wrap returns for a non-nil err, and where it is stored.
WrapValue(err, msg, ol, fresh) ==
    LET s == WrapStart(err, fresh)
        j1 == CaptureHopTrace(s.je, fresh)
        j2 == PrependSegment(j1, msg)
        r == ApplyAll(ol, j2.Hops[1], WrapMetadata(err, fresh))
    IN  [at |-> s.at,
         je |-> [j2 EXCEPT !.Hops[1] = r.h, !.message = msg, !.err = err,
                           !.metadata = r.md],
         captured |-> (IF s.je.Hops[1].StackTrace = NoTrace THEN 1 ELSE 0)
                        + (IF ~hasTrace(err).has THEN 1 ELSE 0)]

\* entry is the Entry the latest step handed to the logger; a step that is not
\* a log call hands over none.
NoEntry == [built |-> FALSE]

NoCall == [op |-> "none", in |-> NilErr, out |-> NilErr, captured |-> 0, applied |-> 0]

Store(at, obj) ==
    IF at = Len(heap) + 1 THEN Append(heap, obj) ELSE [heap EXCEPT ![at] = obj]

StoreCall(at, c) ==
    IF at = Len(calls) + 1 THEN Append(calls, c) ELSE [calls EXCEPT ![at] = c]

New(msg, ol) ==
    /\ LET fresh == Len(heap) + 1 IN
        /\ heap' = Append(heap, NewValue(msg, ol, fresh))
        /\ calls' = Append(calls, [op |-> "New", msg |-> msg, ol |-> ol, in |-> NilErr])
        /\ last' = [op |-> "New", in |-> NilErr, out |-> fresh, captured |-> 2,
                    applied |-> 2 * Len(ol)]
    /\ entry' = NoEntry
    /\ UNCHANGED joinOnPath

Wrap(err, msg, ol) ==
    /\ IF IsNilErr(err)
       THEN /\ last' = [op |-> "Wrap", in |-> err, out |-> NilErr, captured |-> 0,
                        applied |-> 0]
            /\ UNCHANGED <<heap, calls>>
       ELSE /\ LET w == WrapValue(err, msg, ol, Len(heap) + 1) IN
                /\ heap' = Store(w.at, w.je)
                /\ calls' = StoreCall(w.at, [op |-> "Wrap", msg |-> msg, ol |-> ol,
                                             in |-> err])
                /\ last' = [op |-> "Wrap", in |-> err, out |-> w.at,
                            captured |-> w.captured, applied |-> 2 * Len(ol)]
    /\ entry' = NoEntry
    /\ UNCHANGED joinOnPath

\* A foreign leaf error, such as errors.New(text) of the standard library.
Foreign(text) ==
    /\ heap' = Append(heap, [kind |-> "foreign", message |-> text, err |-> NilErr])
    /\ calls' = Append(calls, [op |-> "Foreign", msg |-> text, ol |-> <<>>, in |-> NilErr])
    /\ last' = [op |-> "Foreign", in |-> NilErr, out |-> Len(heap) + 1,
                captured |-> 0, applied |-> 0]
    /\ entry' = NoEntry
    /\ UNCHANGED joinOnPath

\* A foreign wrapper with Unwrap() error, such as fmt.Errorf("%w", err).
ForeignWrapper(err, text) ==
    /\ heap' = Append(heap, [kind |-> "wrapper", message |-> text, err |-> err])
    /\ calls' = Append(calls, [op |-> "ForeignWrapper", msg |-> text, ol |-> <<>>,
                               in |-> err])
    /\ last' = [op |-> "ForeignWrapper", in |-> err, out |-> Len(heap) + 1,
                captured |-> 0, applied |-> 0]
    /\ entry' = NoEntry
    /\ UNCHANGED joinOnPath


----------------------------------------------------------------------------
(* Queries (errors.go:212-246).                                            *)

OriginalError(err) == IF IsJet(err) THEN heap[err].OriginalErr ELSE NilErr

\* The non-empty codes of a segment list, in list order.
RECURSIVE SegmentCodes(_)
SegmentCodes(es) ==
    IF es = <<>> THEN <<>>
    ELSE (IF Head(es).Code = "" THEN <<>> ELSE <<Head(es).Code>>)
            \o SegmentCodes(Tail(es))

RECURSIVE HopCodes(_)
HopCodes(hs) ==
    IF hs = <<>> THEN <<>> ELSE SegmentCodes(Head(hs).Errors) \o HopCodes(Tail(hs))

GetCodes(err) == IF IsJet(err) THEN HopCodes(heap[err].Hops) ELSE <<>>

----------------------------------------------------------------------------
(* Error values the log package meets besides the ones above: an           *)
(* *internal.Error with its exported fields, and a joined error, which     *)
(* exposes Unwrap() []error.                                               *)

FrameOf(k) == "f" \o ToString(k)

SourceOf(k) == "s" \o ToString(k)

\* A key/value parameter.  A key is modelled by its rank in string order.
KeyValue(k) == [Key |-> k, Value |-> "v"]

\* The field values an *internal.Error built as the k-th error value may have:
\* with or without a binary, with or without a trace, and either bare or
\* carrying a code, a source and a parameter.
InternalErrors(k, err) ==
    {[kind |-> "ierr", message |-> MsgOf(k), err |-> err,
      Code |-> (IF d THEN CodeOf(k) ELSE ""),
      Source |-> (IF d THEN SourceOf(k) ELSE ""),
      Binary |-> bin, KV |-> (IF d THEN <<KeyValue(k)>> ELSE <<>>),
      StackTrace |-> st] :
        bin \in {""} \cup Binaries, st \in {<<>>, <<FrameOf(k)>>}, d \in BOOLEAN}

IsInternal(e) == e # NilErr /\ heap[e].kind = "ierr"

\* Whether e exposes Unwrap() []error.
IsJoin(e) == e # NilErr /\ heap[e].kind = "join"

Internal(obj) ==
    /\ heap' = Append(heap, obj)
    /\ calls' = Append(calls, [op |-> "Internal", msg |-> obj.message, ol |-> <<>>,
                               in |-> obj.err])
    /\ entry' = NoEntry
    /\ UNCHANGED joinOnPath
    /\ UNCHANGED last

\* errors.Join(a, b) of the standard library.
Join(children, text) ==
    /\ heap' = Append(heap, [kind |-> "join", message |-> text, errs |-> children])
    /\ calls' = Append(calls, [op |-> "Join", msg |-> text, ol |-> <<>>, in |-> NilErr])
    /\ entry' = NoEntry
    /\ UNCHANGED joinOnPath
    /\ UNCHANGED last

----------------------------------------------------------------------------
(* Collaborators of log.go that are not part of the sources at hand.       *)

\* errors.Flatten: every path from err down to a leaf, outermost error first.
\* A joined node starts one path per child and the nodes above it stay on each
\* of them; withJoin tells whether the joined node is itself an element of the
\* paths through it.
RECURSIVE Flatten(_, _)
RECURSIVE FlattenAll(_, _)
Flatten(e, withJoin) ==
    IF e = NilErr THEN <<>>
    ELSE IF IsJoin(e)
         THEN LET below == FlattenAll(heap[e].errs, withJoin)
              IN  [i \in 1..Len(below) |->
                      (IF withJoin THEN <<e>> ELSE <<>>) \o below[i]]
    ELSE IF HasUnwrap(e) /\ Unwrap(e) # NilErr
         THEN LET below == Flatten(Unwrap(e), withJoin)
              IN  [i \in 1..Len(below) |-> <<e>> \o below[i]]
    ELSE <<<<e>>>>

FlattenAll(es, withJoin) ==
    IF es = <<>> THEN <<>>
    ELSE Flatten(Head(es), withJoin) \o FlattenAll(Tail(es), withJoin)

\* (*trace.Merge).Add: one more (trace, binary) pair.
MergeAdd(m, st, bin) == Append(m, [StackTrace |-> st, Binary |-> bin])

\* (*trace.Merge).FullTrace: the frames of the pairs, in the order added, each
\* with the binary of its pair.
RECURSIVE FullTrace(_)
FullTrace(m) ==
    IF m = <<>> THEN <<>>
    ELSE [i \in 1..Len(Head(m).StackTrace) |->
              [Frame |-> Head(m).StackTrace[i], Binary |-> Head(m).Binary]]
            \o FullTrace(Tail(m))

\* MakeElastic: the merged trace in the form the entry carries.
MakeElastic(t) == [i \in 1..Len(t) |-> [Function |-> t[i].Frame, Binary |-> t[i].Binary]]

\* ContextKeyValues(ctx): the parameters the context carries.
ContextKeyValues(ctx) == ctx

\* The contexts a log call is given: with no parameter, or with one whose key
\* comes before every key of an error.
Ctxs == {<<>>, <<KeyValue(0)>>}

----------------------------------------------------------------------------
(* errorEntry (log.go:112-152).                                            *)

ZeroErrorObject ==
    [Message |-> "", Code |-> "", Source |-> "", Stack |-> <<>>,
     StackTrace |-> <<>>, Parameters |-> <<>>]

\* Lines 120-128: a joined error clears the message, any other error sets it
\* if it is empty.
MessageAfter(message, err) ==
    IF IsJoin(err) THEN ""
    ELSE IF message = "" THEN ErrorText(err)
    ELSE message

StackAfter_traced(stack, je) ==
    IF Len(je.StackTrace) > 0 THEN Append(stack, je.Binary) ELSE stack

\* Lines 142-144.
StackAfter(stack, je) ==
    IF je.Binary # "" THEN Append(stack, je.Binary) ELSE stack

\* Lines 146-148.
MergeAfter(m, je) ==
    IF Len(je.StackTrace) > 0 THEN MergeAdd(m, je.StackTrace, je.Binary) ELSE m

\* One turn of the loop over the path: e is the ErrorObject, m the Merge.
PathStep(acc, err) ==
    LET message == MessageAfter(acc.e.Message, err) IN
    IF ~IsInternal(err)
    THEN [acc EXCEPT !.e.Message = message]
    ELSE LET je == heap[err] IN
         [e |-> [Message |-> message,
                 Code |-> (IF acc.e.Code = "" THEN je.Code ELSE acc.e.Code),
                 Source |-> (IF je.Source # "" THEN je.Source ELSE acc.e.Source),
                 Stack |-> StackAfter(acc.e.Stack, je),
                 StackTrace |-> acc.e.StackTrace,
                 Parameters |-> acc.e.Parameters \o je.KV],
          m |-> MergeAfter(acc.m, je)]

RECURSIVE PathLoop(_, _)
PathLoop(acc, errPath) ==
    IF errPath = <<>> THEN acc
    ELSE PathLoop(PathStep(acc, Head(errPath)), Tail(errPath))

\* The pairs errorEntry hands to the Merge for a path.
errorEntryMerge(errPath) == PathLoop([e |-> ZeroErrorObject, m |-> <<>>], errPath).m

errorEntry(errPath) ==
    IF Len(errPath) = 0 THEN ZeroErrorObject
    ELSE LET r == PathLoop([e |-> ZeroErrorObject, m |-> <<>>], errPath)
         IN  [r.e EXCEPT !.StackTrace = MakeElastic(FullTrace(r.m))]

----------------------------------------------------------------------------
(* makeEntry and its options (log.go:28-110, 154-164).                     *)

LevelInfo == "info"
LevelError == "error"
LevelDebug == "debug"

WithLevel(level) == [opt |-> "WithLevel", level |-> level, err |-> NilErr]
WithError(err) == [opt |-> "WithError", level |-> "", err |-> err]

\* A nil pointer is the empty sequence, a pointer to v is <<v>>.
newEntry(msg, level) ==
    [Message |-> msg, Source |-> "caller", Level |-> level, Timestamp |-> "now",
     Parameters |-> <<>>, ErrorCode |-> <<>>, ErrorObject |-> <<>>,
     ErrorObjects |-> <<>>]

RECURSIVE addPaths(_, _)
addPaths(e, paths) ==
    IF paths = <<>> THEN e
    ELSE LET ent == errorEntry(Head(paths)) IN
         addPaths([e EXCEPT !.Parameters = e.Parameters \o ent.Parameters,
                            !.ErrorObjects = Append(e.ErrorObjects, ent)],
                  Tail(paths))

addErrors(e, err, withJoin) ==
    IF err = NilErr THEN e
    ELSE LET paths == Flatten(err, withJoin) IN
         IF Len(paths) = 1
         THEN LET ent == errorEntry(paths[1]) IN
              [e EXCEPT !.Parameters = e.Parameters \o ent.Parameters,
                        !.ErrorObject = <<ent>>]
         ELSE addPaths(e, paths)

ApplyToLog(o, e, withJoin) ==
    CASE o.opt = "WithLevel" -> [e EXCEPT !.Level = o.level]
      [] o.opt = "WithError" ->
            LET codes == GetCodes(o.err) IN
            addErrors(IF Len(codes) > 0 THEN [e EXCEPT !.ErrorCode = <<codes[1]>>]
                      ELSE e,
                      o.err, withJoin)

RECURSIVE ApplyAllToLog(_, _, _)
ApplyAllToLog(opts, e, withJoin) ==
    IF opts = <<>> THEN e
    ELSE ApplyAllToLog(Tail(opts), ApplyToLog(Head(opts), e, withJoin), withJoin)

\* The list with kv put before the first element of a greater key.
RECURSIVE Insert(_, _)
Insert(kv, sorted) ==
    IF sorted = <<>> THEN <<kv>>
    ELSE IF kv.Key < Head(sorted).Key THEN <<kv>> \o sorted
    ELSE <<Head(sorted)>> \o Insert(kv, Tail(sorted))

SortParameters_none(params) == params

\* Lines 86-89: sort.Slice by key.  sort.Slice may leave parameters of equal
\* keys in either order.
RECURSIVE SortParameters(_)
SortParameters(params) ==
    IF params = <<>> THEN <<>>
    ELSE Insert(params[Len(params)],
                SortParameters(SubSeq(params, 1, Len(params) - 1)))

makeEntry(ctx, msg, lvl, opts, withJoin) ==
    LET l == ApplyAllToLog(opts, newEntry(msg, lvl), withJoin)
    IN  [l EXCEPT !.Parameters = SortParameters(l.Parameters \o ContextKeyValues(ctx))]

\* The entry handed to the logger, with the call that built it.
Logged(e, ctx, opts, withJoin) ==
    [built |-> TRUE, e |-> e, ctx |-> ctx, opts |-> opts, withJoin |-> withJoin]

Info(ctx, msg, opts, withJoin) ==
    /\ entry' = Logged(makeEntry(ctx, msg, LevelInfo, opts, withJoin), ctx, opts, withJoin)
    /\ UNCHANGED <<heap, calls, last, joinOnPath>>

Debug(ctx, msg, opts, withJoin) ==
    /\ entry' = Logged(makeEntry(ctx, msg, LevelDebug, opts, withJoin), ctx, opts, withJoin)
    /\ UNCHANGED <<heap, calls, last, joinOnPath>>

NilErrorLogged == "nil error logged - this is probably a bug"

\* Error (log.go:70-77): a nil err is replaced by a new chain value.
Error(ctx, err, opts, withJoin) ==
    IF err = NilErr
    THEN \E made \in {Len(heap) + 1} :
            /\ heap' = Append(heap, NewValue(NilErrorLogged, <<>>, made))
            /\ calls' = Append(calls, [op |-> "New", msg |-> NilErrorLogged,
                                       ol |-> <<>>, in |-> NilErr])
            /\ \E all \in {Append(opts, WithError(made))} :
                 entry' = Logged(makeEntry(ctx, NilErrorLogged, LevelError, all,
                                           withJoin),
                                 ctx, all, withJoin)'
            /\ UNCHANGED <<last, joinOnPath>>
    ELSE /\ LET all == Append(opts, WithError(err)) IN
            entry' = Logged(makeEntry(ctx, ErrorText(err), LevelError, all, withJoin),
                            ctx, all, withJoin)
         /\ UNCHANGED <<heap, calls, last, joinOnPath>>

----------------------------------------------------------------------------
(* The error package at work.                                              *)

Init ==
    /\ heap = <<>>
    /\ calls = <<>>
    /\ last = NoCall
    /\ entry = NoEntry
    /\ joinOnPath = FALSE

\* The model builds up to MaxErrs error values and then stops.
DoNew == Len(heap) < MaxErrs /\ \E ol \in OptionLists(Fresh) : New(MsgOf(Fresh), ol)

DoWrap ==
    /\ Len(heap) < MaxErrs
    /\ \E err \in Errs \cup {NilErr}, ol \in OptionLists(Fresh) :
            Wrap(err, MsgOf(Fresh), ol)

DoForeign == Len(heap) < MaxErrs /\ Foreign(TextOf(Fresh))

DoForeignWrapper ==
    Len(heap) < MaxErrs /\ \E err \in Errs : ForeignWrapper(err, TextOf(Fresh))

Next == DoNew \/ DoWrap \/ DoForeign \/ DoForeignWrapper

Spec == Init /\ [][Next]_vars

----------------------------------------------------------------------------
(* The log package at work on error values of every kind.                  *)

\* A log call leaves the error values as they are, and the entry it builds
\* depends on nothing but them and its arguments: nothing new is reached by
\* going on after a log call, and the model stops there.
Building == Len(heap) < MaxNodes /\ ~entry.built

LogNew ==
    Building /\ \E ol \in {<<>>, <<WithCode(CodeOf(Fresh))>>} : New(MsgOf(Fresh), ol)

LogForeign == Building /\ Foreign(TextOf(Fresh))

LogForeignWrapper == Building /\ \E err \in Errs : ForeignWrapper(err, TextOf(Fresh))

LogInternal ==
    /\ Building
    /\ \E err \in Errs \cup {NilErr} : \E obj \in InternalErrors(Fresh, err) : Internal(obj)

LogJoin == Building /\ \E a \in Errs, b \in Errs : Join(<<a, b>>, TextOf(Fresh))

\* The error a log call is given: nil or the error value built last.  An older
\* value was the one built last when it was built, and no value changes.
Newest == {NilErr} \cup {e \in Errs : e = Len(heap)}

LogOptionLists ==
    {<<>>} \cup {<<WithError(e)>> : e \in Newest}
        \cup {<<WithLevel(LevelError), WithError(e)>> : e \in Newest \ {NilErr}}

DoInfo ==
    /\ ~entry.built
    /\ \E ctx \in Ctxs, opts \in LogOptionLists : Info(ctx, "info", opts, joinOnPath)

DoDebug == ~entry.built /\ \E ctx \in Ctxs : Debug(ctx, "debug", <<>>, joinOnPath)

DoError ==
    /\ ~entry.built
    /\ \E ctx \in Ctxs, err \in Newest, withJoin \in {joinOnPath} :
            /\ err = NilErr => Len(heap) < MaxNodes
            /\ Error(ctx, err, <<>>, withJoin)

LogNext ==
    \/ LogNew \/ LogForeign \/ LogForeignWrapper \/ LogInternal \/ LogJoin
    \/ DoInfo \/ DoDebug \/ DoError

\* errors.Flatten is one function: which of the two it is is fixed at the start.
LogInit ==
    /\ heap = <<>>
    /\ calls = <<>>
    /\ last = NoCall
    /\ entry = NoEntry
    /\ joinOnPath \in BOOLEAN

LogSpec == LogInit /\ [][LogNext]_vars

----------------------------------------------------------------------------
(* What the claims speak of.  calls[e] is the call that built e.           *)

Jets == {e \in Errs : IsJet(e)}

\* The chain values built by wrapping a chain value.
Rewraps == {e \in Jets : calls[e].op = "Wrap" /\ IsJet(calls[e].in)}

\* The chain values built by wrapping a foreign error.
Adapted == {e \in Jets : calls[e].op = "Wrap" /\ ~IsJet(calls[e].in)}

Range(f) == {f[i] : i \in DOMAIN f}

Segments(e) == heap[e].Hops[1].Errors

HopTrace(e) == heap[e].Hops[1].StackTrace

\* The code the option list leaves on the segment: that of its last WithCode.
RECURSIVE EffectiveCode(_)
EffectiveCode(ol) ==
    IF ol = <<>> THEN ""
    ELSE IF ol[Len(ol)].opt = "WithCode" THEN ol[Len(ol)].arg
    ELSE EffectiveCode(SubSeq(ol, 1, Len(ol) - 1))

\* The non-empty codes the calls that built e were given, newest call first.
RECURSIVE Supplied(_)
Supplied(e) ==
    IF ~IsJet(e) THEN <<>>
    ELSE (IF EffectiveCode(calls[e].ol) = "" THEN <<>>
          ELSE <<EffectiveCode(calls[e].ol)>>) \o Supplied(calls[e].in)

\* The errors reached from e by Unwrap, e first.
RECURSIVE UnwrapChain(_)
UnwrapChain(e) ==
    IF e = NilErr THEN {}
    ELSE IF HasUnwrap(e) THEN {e} \cup UnwrapChain(Unwrap(e))
    ELSE {e}

OwnsTrace(e) == IsJet(e) /\ heap[e].metadata.Trace.Binary # ""

Owners(e) == {x \in UnwrapChain(e) : OwnsTrace(x)}

\* C1: no call changes an error value that exists: after b := Wrap(a, m, opts)
\* the message, metadata, hops, segments and hop trace of a, and of every other
\* value, are what they were before the call.
WrapNeverMutates == [][\A a \in Errs : heap'[a] = heap[a]]_vars

\* C1 witness: one sentinel has been wrapped by two calls.
SentinelWrappedTwice ==
    \E b \in Rewraps, c \in Rewraps : b # c /\ calls[b].in = calls[c].in

\* C2: Wrap(nil, msg, opts...) returns nil, captures no trace and applies no
\* option, whatever the message and the options.
WrapNilIsNil ==
    (last.op = "Wrap" /\ last.in = NilErr)
        => (last.out = NilErr /\ last.captured = 0 /\ last.applied = 0)

\* C2 witness: Wrap has been called with nil after an error was built.
WrapNilCalled == last.op = "Wrap" /\ last.in = NilErr /\ Len(heap) > 0

\* C3: GetCodes returns the non-empty codes the calls of the chain were given,
\* newest call first; a WithCode given to Wrap leaves the codes of the older
\* segments alone; GetCodes of a non-chain error is empty.
GetCodesNewestFirst ==
    /\ \A e \in Jets : GetCodes(e) = Supplied(e)
    /\ \A e \in Rewraps :
            [i \in 1..Len(Segments(calls[e].in)) |-> Segments(e)[i + 1].Code]
                = [i \in 1..Len(Segments(calls[e].in)) |->
                        Segments(calls[e].in)[i].Code]
    /\ \A e \in Errs \ Jets : GetCodes(e) = <<>>

\* C3 witness: a chain built with two codes and one call without a code.
TwoCodesThreeCalls ==
    \E e \in Rewraps : Len(GetCodes(e)) = 2 /\ Len(Segments(e)) = 3

\* C4: once the current hop has a trace, a Wrap leaves it as it was, whatever
\* its options; only an error built by New with WithoutStackTrace has no
\* trace, and the first Wrap of such an error captures one.
HopTraceCapturedOnce ==
    /\ \A e \in Rewraps :
            IF HopTrace(calls[e].in) # NoTrace
            THEN HopTrace(e) = HopTrace(calls[e].in)
            ELSE HopTrace(e) = GetStackTrace(e)
    /\ \A e \in Jets :
            HopTrace(e) = NoTrace
                => (calls[e].op = "New" /\ WithoutStackTrace \in Range(calls[e].ol))

\* C4 witness: a chain with a trace was wrapped with WithoutStackTrace, and a
\* trace-less sentinel was wrapped.
WrappedWithoutStackTrace ==
    /\ \E e \in Rewraps :
            HopTrace(calls[e].in) # NoTrace /\ WithoutStackTrace \in Range(calls[e].ol)
    /\ \E e \in Rewraps : HopTrace(calls[e].in) = NoTrace

\* C5: at most one chain value along the unwrap chain of an error owns a
\* Metadata trace, and a Wrap whose input already has an owner leaves its own
\* Metadata trace empty.
AtMostOneTraceOwner ==
    /\ \A e \in Jets : Cardinality(Owners(e)) <= 1
    /\ \A e \in Jets :
            (calls[e].op = "Wrap" /\ Owners(calls[e].in) # {})
                => heap[e].metadata.Trace = ZeroHop

\* C6 as claimed: Wrap of a foreign error gives one hop with a single segment,
\* holding the text of the foreign error.
AdaptedHasOneSegment ==
    \A e \in Adapted :
        /\ Len(heap[e].Hops) = 1
        /\ Len(Segments(e)) = 1
        /\ Segments(e)[1].Message = ErrorText(calls[e].in)
        /\ heap[e].message = calls[e].msg
        /\ OriginalError(e) = calls[e].in

\* C6 as amended: Wrap of a foreign error gives one hop with two segments, the
\* wrap message first and the text of the foreign error second; the outward
\* message is the wrap message and OriginalError is the foreign error.
AdaptedHasTwoSegments ==
    \A e \in Adapted :
        /\ Len(heap[e].Hops) = 1
        /\ Segments(e) = <<[Message |-> calls[e].msg,
                             Code |-> EffectiveCode(calls[e].ol)],
                            [Message |-> ErrorText(calls[e].in), Code |-> ""]>>
        /\ heap[e].message = calls[e].msg
        /\ OriginalError(e) = calls[e].in

\* C6 witness: a foreign error has been wrapped.
ForeignWrapped == \E e \in Adapted : heap[calls[e].in].kind = "foreign"

\* C10: every chain value has a hop with a segment; New gives one hop with one
\* segment; Wrap of a chain value keeps the number of hops and puts one new
\* segment in front of the segments of its input, which keep their order.
ChainShape ==
    /\ \A e \in Jets : Len(heap[e].Hops) >= 1 /\ Len(Segments(e)) >= 1
    /\ \A e \in Jets :
            calls[e].op = "New"
                => (Len(heap[e].Hops) = 1 /\ Len(Segments(e)) = 1
                    /\ Segments(e)[1].Message = calls[e].msg)
    /\ \A e \in Rewraps :
            /\ Len(heap[e].Hops) = Len(heap[calls[e].in].Hops)
            /\ Len(Segments(e)) = Len(Segments(calls[e].in)) + 1
            /\ Segments(e)[1].Message = calls[e].msg
            /\ Tail(Segments(e)) = Segments(calls[e].in)

\* C10 witness: a chain value wrapped twice in a row holds three segments.
ThreeSegments == \E e \in Rewraps : Len(Segments(e)) = 3 /\ calls[e].in \in Rewraps

----------------------------------------------------------------------------
(* The entry of the latest log call.                                       *)

\* The errors the call's WithError options were given.
LoggedErrs ==
    LET we == SelectSeq(entry.opts, LAMBDA o : o.opt = "WithError")
    IN  [i \in 1..Len(we) |-> we[i].err]

\* The call logged exactly one error, and not nil.
LoggedOne == entry.built /\ Len(LoggedErrs) = 1 /\ LoggedErrs[1] # NilErr

LoggedPaths == Flatten(LoggedErrs[1], entry.withJoin)

\* The ErrorObjects of the entry: the single one, or the list.
EntryObjects ==
    IF entry.e.ErrorObject # <<>> THEN entry.e.ErrorObject ELSE entry.e.ErrorObjects

NonJoined(path) == SelectSeq(path, LAMBDA x : ~IsJoin(x))

InternalOn(path) == SelectSeq(path, IsInternal)

Count(seq, x) == Cardinality({i \in DOMAIN seq : seq[i] = x})

SameElements(s, t) == \A x \in Range(s) \cup Range(t) : Count(s, x) = Count(t, x)

RECURSIVE Concat(_)
Concat(ss) == IF ss = <<>> THEN <<>> ELSE Head(ss) \o Concat(Tail(ss))

\* C7: the message of the ErrorObject of a path is the message of the last
\* non-joined node of the path, never that of a joined node; the empty path
\* gives the empty ErrorObject.
MessageIsInnermost ==
    /\ errorEntry(<<>>) = ZeroErrorObject
    /\ LoggedOne =>
        \A i \in 1..Len(LoggedPaths) :
            LET nj == NonJoined(LoggedPaths[i]) IN
            /\ Len(EntryObjects) = Len(LoggedPaths)
            /\ EntryObjects[i].Message
                    = (IF nj = <<>> THEN "" ELSE ErrorText(nj[Len(nj)]))
            /\ \A x \in Range(LoggedPaths[i]) :
                    IsJoin(x) => EntryObjects[i].Message # ErrorText(x)

BinariesOf(nodes) == [i \in 1..Len(nodes) |-> heap[nodes[i]].Binary]

\* C9 as claimed: the stack of the ErrorObject of a path lists the binaries of
\* the chain nodes of the path that carry a trace, which are the binaries of
\* the pairs handed to the Merge.
StackIsTracedBinaries ==
    LoggedOne =>
        \A i \in 1..Len(LoggedPaths) :
            /\ EntryObjects[i].Stack
                = BinariesOf(SelectSeq(InternalOn(LoggedPaths[i]),
                                       LAMBDA x : Len(heap[x].StackTrace) > 0))
            /\ EntryObjects[i].Stack
                = [j \in 1..Len(errorEntryMerge(LoggedPaths[i])) |->
                        errorEntryMerge(LoggedPaths[i])[j].Binary]

\* C9 as amended: the stack lists, outer to inner, the binaries of the chain
\* nodes of the path that have a non-empty binary, with or without a trace;
\* the pairs handed to the Merge are those of the chain nodes with a trace;
\* the two list the same hops when every chain node of the path has a binary
\* exactly if it has a trace.
StackIsNamedBinaries ==
    LoggedOne =>
        \A i \in 1..Len(LoggedPaths) :
            LET nodes == InternalOn(LoggedPaths[i])
                pairs == errorEntryMerge(LoggedPaths[i])
                traced == SelectSeq(nodes, LAMBDA x : Len(heap[x].StackTrace) > 0)
            IN  /\ EntryObjects[i].Stack
                    = BinariesOf(SelectSeq(nodes, LAMBDA x : heap[x].Binary # ""))
                /\ pairs = [j \in 1..Len(traced) |->
                              [StackTrace |-> heap[traced[j]].StackTrace,
                               Binary |-> heap[traced[j]].Binary]]
                /\ EntryObjects[i].StackTrace = MakeElastic(FullTrace(pairs))
                /\ (\A x \in Range(nodes) :
                        heap[x].Binary # "" <=> Len(heap[x].StackTrace) > 0)
                    => EntryObjects[i].Stack
                            = [j \in 1..Len(pairs) |-> pairs[j].Binary]

\* C9 witness: a logged path holds a chain node with a binary and no trace
\* under a chain node with a binary and a trace.
BinaryWithoutTraceLogged ==
    /\ LoggedOne
    /\ \E i \in 1..Len(LoggedPaths) :
        /\ \E x \in Range(InternalOn(LoggedPaths[i])) :
                heap[x].Binary # "" /\ heap[x].StackTrace = <<>>
        /\ \E x \in Range(InternalOn(LoggedPaths[i])) :
                heap[x].Binary # "" /\ heap[x].StackTrace # <<>>

====
